---- MODULE Spec2Model ----
(***************************************************************************)
(* The buy-vs-commute calculator component                                 *)
(* (src/src/components/buy-vs-commute-calculator.tsx) as a state machine.  *)
(*                                                                         *)
(* The component state is the five useState cells: formData, errors,       *)
(* result, viewMode and chartType.  The operations are the event handlers  *)
(* handleInputChange, calculateCosts, setViewMode and setChartType.        *)
(*                                                                         *)
(* A text is a sequence of one-character strings.  A JavaScript number is  *)
(* an IEEE 754 binary64 value: NaN, an infinity, or (-1)^neg * man * 2^exp *)
(* with man a natural number of at most 53 bits kept odd (or zero), so     *)
(* that equal values have equal representations.  Mantissas do not fit the *)
(* model checker's integers and are kept as little-endian sequences of     *)
(* limbs (naturals in base 2^15).  Every arithmetic operator computes the  *)
(* exact result and rounds it to nearest, ties to even, as the language    *)
(* does.                                                                   *)
(***************************************************************************)
EXTENDS Integers, Sequences, FiniteSets, TLC

(***************************************************************************)
(* Natural numbers of unbounded size                                       *)
(***************************************************************************)
Base == 2^15

BZero == <<>>

BOne == <<1>>

RECURSIVE BTrim(_)
BTrim(a) ==
    IF a = <<>> THEN a
    ELSE IF a[Len(a)] = 0 THEN BTrim(SubSeq(a, 1, Len(a) - 1))
    ELSE a

BRest(a) == IF a = <<>> THEN a ELSE Tail(a)

BLow(a) == IF a = <<>> THEN 0 ELSE Head(a)

RECURSIVE BAddC(_, _, _)
BAddC(a, b, c) ==
    IF a = <<>> /\ b = <<>>
    THEN (IF c = 0 THEN <<>> ELSE <<c>>)
    ELSE LET x == BLow(a) + BLow(b) + c
         IN  <<x % Base>> \o BAddC(BRest(a), BRest(b), x \div Base)

BAdd(a, b) == BAddC(a, b, 0)

RECURSIVE BSubC(_, _, _)
BSubC(a, b, c) ==
    IF a = <<>> THEN <<>>
    ELSE LET x == BLow(a) - BLow(b) - c
         IN  <<x % Base>> \o BSubC(BRest(a), BRest(b), IF x < 0 THEN 1 ELSE 0)

\* a - b for a >= b
BSub(a, b) == BTrim(BSubC(a, b, 0))

RECURSIVE BCmpFrom(_, _, _)
BCmpFrom(a, b, i) ==
    IF i = 0 THEN 0
    ELSE IF a[i] < b[i] THEN -1
    ELSE IF a[i] > b[i] THEN 1
    ELSE BCmpFrom(a, b, i - 1)

\* -1, 0 or 1 as a < b, a = b or a > b
BCmp(a, b) ==
    IF Len(a) < Len(b) THEN -1
    ELSE IF Len(a) > Len(b) THEN 1
    ELSE BCmpFrom(a, b, Len(a))

RECURSIVE BMulSmallC(_, _, _)
BMulSmallC(a, k, c) ==
    IF a = <<>>
    THEN (IF c = 0 THEN <<>> ELSE <<c>>)
    ELSE LET x == Head(a) * k + c
         IN  <<x % Base>> \o BMulSmallC(Tail(a), k, x \div Base)

\* a * k for 0 <= k < Base
BMulSmall(a, k) == IF k = 0 THEN <<>> ELSE BMulSmallC(a, k, 0)

RECURSIVE BMul(_, _)
BMul(a, b) ==
    IF a = <<>> \/ b = <<>> THEN <<>>
    ELSE BAdd(BMulSmall(a, Head(b)),
              LET r == BMul(a, Tail(b)) IN IF r = <<>> THEN r ELSE <<0>> \o r)

RECURSIVE BDivSmallFrom(_, _, _, _)
BDivSmallFrom(a, k, i, r) ==
    IF i = 0 THEN <<>>
    ELSE LET x == r * Base + a[i]
         IN  BDivSmallFrom(a, k, i - 1, x % k) \o <<x \div k>>

\* a \div k for 0 < k < Base
BDivSmall(a, k) == BTrim(BDivSmallFrom(a, k, Len(a), 0))

RECURSIVE BModSmallFrom(_, _, _, _)
BModSmallFrom(a, k, i, r) ==
    IF i = 0 THEN r ELSE BModSmallFrom(a, k, i - 1, (r * Base + a[i]) % k)

\* a % k for 0 < k < Base
BModSmall(a, k) == BModSmallFrom(a, k, Len(a), 0)

RECURSIVE BZeros(_)
BZeros(n) == IF n = 0 THEN <<>> ELSE <<0>> \o BZeros(n - 1)

\* a * 2^n
BShl(a, n) ==
    IF a = <<>> THEN a
    ELSE BZeros(n \div 15) \o BMulSmall(a, 2^(n % 15))

\* a \div 2^n
BShr(a, n) ==
    IF Len(a) <= n \div 15 THEN <<>>
    ELSE BDivSmall(SubSeq(a, (n \div 15) + 1, Len(a)), 2^(n % 15))

RECURSIVE LimbBits(_)
LimbBits(x) == IF x = 0 THEN 0 ELSE 1 + LimbBits(x \div 2)

\* the number of bits of a: 0 for 0, otherwise floor(log2 a) + 1
BBitLen(a) == IF a = <<>> THEN 0 ELSE 15 * (Len(a) - 1) + LimbBits(a[Len(a)])

BIsOdd(a) == a # <<>> /\ Head(a) % 2 = 1

RECURSIVE LimbTrailingZeros(_)
LimbTrailingZeros(x) == IF x % 2 = 1 THEN 0 ELSE 1 + LimbTrailingZeros(x \div 2)

RECURSIVE BTrailingZeros(_)
\* the number of trailing zero bits of a > 0
BTrailingZeros(a) ==
    IF Head(a) = 0 THEN 15 + BTrailingZeros(Tail(a))
    ELSE LimbTrailingZeros(Head(a))

RECURSIVE BQuotientDigit(_, _, _, _)
\* the largest g in lo..hi with d * g <= r, given that d * lo <= r
BQuotientDigit(r, d, lo, hi) ==
    IF lo = hi THEN lo
    ELSE LET mid == (lo + hi + 1) \div 2
         IN  IF BCmp(BMulSmall(d, mid), r) <= 0
             THEN BQuotientDigit(r, d, mid, hi)
             ELSE BQuotientDigit(r, d, lo, mid - 1)

RECURSIVE BDivLimbs(_, _, _)
\* long division of r / d for r < d: the pair of the first n limbs of the
\* quotient after the point, floor(r * Base^n / d) as exactly n limbs, and
\* the remainder r * Base^n mod d
BDivLimbs(r, d, n) ==
    IF n = 0 THEN << <<>>, r >>
    ELSE LET rb   == IF r = <<>> THEN r ELSE <<0>> \o r
             g    == BQuotientDigit(rb, d, 0, Base - 1)
             rest == BDivLimbs(BSub(rb, BMulSmall(d, g)), d, n - 1)
         IN  << rest[1] \o <<g>>, rest[2] >>

RECURSIVE BFromNat(_)
BFromNat(n) == IF n = 0 THEN <<>> ELSE <<n % Base>> \o BFromNat(n \div Base)

(***************************************************************************)
(* JavaScript numbers (IEEE 754 binary64)                                  *)
(***************************************************************************)
\* the precision of a number: 53 significant bits
Precision == 53

NaN == [cls |-> "nan", neg |-> FALSE, man |-> <<>>, exp |-> 0]

Infinity(neg) == [cls |-> "inf", neg |-> neg, man |-> <<>>, exp |-> 0]

Zero(neg) == [cls |-> "fin", neg |-> neg, man |-> <<>>, exp |-> 0]

IsNaN(x) == x.cls = "nan"

IsZero(x) == x.cls = "fin" /\ x.man = <<>>

\* Number.isFinite: neither NaN nor an infinity
IsFinite(x) == x.cls = "fin"

\* the number (-1)^neg * m * 2^e for m of at most Precision bits
Canon(neg, m, e) ==
    IF m = <<>> THEN Zero(neg)
    ELSE LET tz == BTrailingZeros(m)
         IN  [cls |-> "fin", neg |-> neg, man |-> BShr(m, tz), exp |-> e + tz]

\* (-1)^neg * (m + f) * 2^e rounded to nearest, ties to even, where f = 0
\* when sticky is false and 0 < f < 1 when it is true (then m has more than
\* Precision bits).  The exponent stays far inside the binary64 range for
\* every text of bounded length, so no overflow or subnormal case arises.
Round(neg, m, e, sticky) ==
    LET L == BBitLen(m) IN
    IF L <= Precision THEN Canon(neg, m, e)
    ELSE LET sh   == L - Precision
             q    == BShr(m, sh)
             rem  == BSub(m, BShl(q, sh))
             c    == BCmp(rem, BShl(BOne, sh - 1))
             up   == c > 0 \/ (c = 0 /\ (sticky \/ BIsOdd(q)))
         IN  Canon(neg, IF up THEN BAdd(q, BOne) ELSE q, e + sh)

\* (-1)^neg * (n / d) * 2^e, correctly rounded, for naturals n > 0 and
\* d > 0: enough quotient bits are computed for the rounding to be decided
\* by them and by whether a remainder is left (short division when d is a
\* single limb, long division otherwise)
RoundRatio(neg, n, d, e) ==
    LET Ln == BBitLen(n)
        Ld == BBitLen(d)
    IN  IF Len(d) = 1
        THEN LET k  == IF Precision + 2 + Ld - Ln > 0
                       THEN Precision + 2 + Ld - Ln ELSE 0
                 nk == BShl(n, k)
             IN  Round(neg, BDivSmall(nk, d[1]), e - k, BModSmall(nk, d[1]) # 0)
        ELSE LET s  == IF Ln - Ld + 1 > 0 THEN Ln - Ld + 1 ELSE 0
                 nl == (Precision + 2 + Ld + s - Ln + 14) \div 15
                 qr == BDivLimbs(n, BShl(d, s), nl)
             IN  Round(neg, BTrim(qr[1]), e + s - 15 * nl, qr[2] # <<>>)

\* the integer n >= 0 as a number
FromNat(n) == Round(FALSE, BFromNat(n), 0, FALSE)

\* a * b
FMul(a, b) ==
    IF IsNaN(a) \/ IsNaN(b) THEN NaN
    ELSE IF a.cls = "inf" \/ b.cls = "inf"
    THEN (IF IsZero(a) \/ IsZero(b) THEN NaN ELSE Infinity(a.neg # b.neg))
    ELSE Round(a.neg # b.neg, BMul(a.man, b.man), a.exp + b.exp, FALSE)

\* a / b
FDiv(a, b) ==
    IF IsNaN(a) \/ IsNaN(b) THEN NaN
    ELSE IF a.cls = "inf"
    THEN (IF b.cls = "inf" THEN NaN ELSE Infinity(a.neg # b.neg))
    ELSE IF b.cls = "inf" THEN Zero(a.neg # b.neg)
    ELSE IF IsZero(b)
    THEN (IF IsZero(a) THEN NaN ELSE Infinity(a.neg # b.neg))
    ELSE IF IsZero(a) THEN Zero(a.neg # b.neg)
    ELSE RoundRatio(a.neg # b.neg, a.man, b.man, a.exp - b.exp)

\* the exact sum of two finite numbers, rounded
FAddFinite(a, b) ==
    LET e  == IF a.exp < b.exp THEN a.exp ELSE b.exp
        ma == BShl(a.man, a.exp - e)
        mb == BShl(b.man, b.exp - e)
        c  == BCmp(ma, mb)
    IN  IF a.neg = b.neg THEN Round(a.neg, BAdd(ma, mb), e, FALSE)
        ELSE IF c = 0 THEN Zero(FALSE)
        ELSE IF c > 0 THEN Round(a.neg, BSub(ma, mb), e, FALSE)
        ELSE Round(b.neg, BSub(mb, ma), e, FALSE)

\* a + b
FAdd(a, b) ==
    IF IsNaN(a) \/ IsNaN(b) THEN NaN
    ELSE IF a.cls = "inf"
    THEN (IF b.cls = "inf" /\ a.neg # b.neg THEN NaN ELSE a)
    ELSE IF b.cls = "inf" THEN b
    ELSE FAddFinite(a, b)

FNeg(a) == IF IsNaN(a) THEN a ELSE [a EXCEPT !.neg = ~a.neg]

\* a - b
FSub(a, b) == FAdd(a, FNeg(b))

\* a < b on finite numbers
FLessFinite(a, b) ==
    LET e  == IF a.exp < b.exp THEN a.exp ELSE b.exp
        c  == BCmp(BShl(a.man, a.exp - e), BShl(b.man, b.exp - e))
    IN  IF IsZero(a) /\ IsZero(b) THEN FALSE
        ELSE IF a.neg /\ ~b.neg THEN TRUE
        ELSE IF ~a.neg /\ b.neg THEN FALSE
        ELSE IF a.neg THEN c > 0
        ELSE c < 0

\* a < b: false when either is NaN
FLess(a, b) ==
    IF IsNaN(a) \/ IsNaN(b) THEN FALSE
    ELSE IF a.cls = "inf" THEN a.neg /\ ~(b.cls = "inf" /\ b.neg)
    ELSE IF b.cls = "inf" THEN ~b.neg
    ELSE FLessFinite(a, b)

\* a === b: false when either is NaN, and +0 equals -0
FEq(a, b) ==
    IF IsNaN(a) \/ IsNaN(b) THEN FALSE
    ELSE IF IsZero(a) /\ IsZero(b) THEN TRUE
    ELSE a = b

\* a <= b
FLessEq(a, b) == FLess(a, b) \/ FEq(a, b)

\* a > b
FGreater(a, b) == FLess(b, a)

\* a || b on numbers: a unless a is falsy (NaN, +0 or -0)
OrElse(a, b) == IF IsNaN(a) \/ IsZero(a) THEN b ELSE a

(***************************************************************************)
(* Texts and their conversion to numbers                                   *)
(***************************************************************************)
Digits == {"0", "1", "2", "3", "4", "5", "6", "7", "8", "9"}

DigitValue(c) ==
    CASE c = "0" -> 0 [] c = "1" -> 1 [] c = "2" -> 2 [] c = "3" -> 3
      [] c = "4" -> 4 [] c = "5" -> 5 [] c = "6" -> 6 [] c = "7" -> 7
      [] c = "8" -> 8 [] c = "9" -> 9

RECURSIVE DigitRun(_, _)
\* the length of the run of digits of text t that starts at position i
DigitRun(t, i) ==
    IF i <= Len(t) /\ t[i] \in Digits THEN 1 + DigitRun(t, i + 1) ELSE 0

RECURSIVE DigitsValue(_)
\* the natural number a sequence of digits denotes
DigitsValue(t) ==
    IF t = <<>> THEN <<>>
    ELSE BAdd(BMulSmall(DigitsValue(SubSeq(t, 1, Len(t) - 1)), 10),
              BFromNat(DigitValue(t[Len(t)])))

RECURSIVE BPow10(_)
BPow10(n) == IF n = 0 THEN BOne ELSE BMulSmall(BPow10(n - 1), 10)

\* /^\d*\.?\d*$/.test(t): digits, at most one decimal point, digits
MatchesNumberPattern(t) ==
    LET n1 == DigitRun(t, 1)
        p  == IF n1 < Len(t) /\ t[n1 + 1] = "." THEN 1 ELSE 0
        n2 == DigitRun(t, n1 + p + 1)
    IN  n1 + p + n2 = Len(t)

\* the number denoted by the longest prefix of t that is an unsigned decimal
\* literal (digits, an optional point, digits; at least one digit), NaN when
\* there is none
parseUnsigned(t) ==
    LET n1 == DigitRun(t, 1)
        p  == IF n1 < Len(t) /\ t[n1 + 1] = "." THEN 1 ELSE 0
        n2 == IF p = 1 THEN DigitRun(t, n1 + 2) ELSE 0
        ds == SubSeq(t, 1, n1) \o SubSeq(t, n1 + 2, n1 + 1 + n2)
        v  == DigitsValue(ds)
    IN  IF n1 + n2 = 0 THEN NaN
        ELSE IF v = <<>> THEN Zero(FALSE)
        ELSE IF n2 = 0 THEN Round(FALSE, v, 0, FALSE)
        ELSE RoundRatio(FALSE, v, BPow10(n2), 0)

\* parseFloat(t): the number denoted by the longest prefix of t that is a
\* decimal literal, with its sign if it has one, NaN when there is none.
\* The texts here carry no blank, exponent or "Infinity".
parseFloat(t) ==
    IF t # <<>> /\ t[1] = "-" THEN FNeg(parseUnsigned(Tail(t)))
    ELSE IF t # <<>> /\ t[1] = "+" THEN parseUnsigned(Tail(t))
    ELSE parseUnsigned(t)

(***************************************************************************)
(* The component state                                                     *)
(***************************************************************************)
VARIABLES
    formData,   \* field name -> raw text
    errors,     \* partial mapping field name -> message: the FormErrors object
    result,     \* <<>> when null, <<r>> when it holds the CalculationResult r
    viewMode,   \* "monthly" or "yearly"
    chartType,  \* "line" or "area"
    changes,    \* the number of change events handled so far
    checked,    \* the last call of validateField on its own: name, value, message
    shown       \* the last call of a formatter on its own: fn, arg, text

vars == <<formData, errors, result, viewMode, chartType, changes, checked, shown>>

Fields ==
    {"carPrice", "fuelEfficiency", "fuelPrice", "distanceToWork",
     "workingDaysPerMonth", "maintenanceCosts", "insuranceCosts",
     "resaleValue", "resaleYears", "publicTransportCosts"}

requiredFields == {"carPrice", "fuelEfficiency", "fuelPrice", "workingDaysPerMonth"}

\* the mutant of workingDaysOutOfRange: the upper bound taken inclusive
workingDaysOutOfRangeInclusive(numValue) ==
    FLessEq(numValue, Zero(FALSE)) \/ ~FLess(numValue, FromNat(31))

\* validateField: numValue <= 0 || numValue > 31
workingDaysOutOfRange(numValue) ==
    FLessEq(numValue, Zero(FALSE)) \/ FGreater(numValue, FromNat(31))

\* validateField(name, value): the message for the field, "" when valid
validateField(name, value) ==
    IF value = <<>> THEN ""
    ELSE LET numValue == parseFloat(value) IN
         CASE name = "carPrice" ->
                IF FLessEq(numValue, Zero(FALSE))
                THEN "Car price must be greater than 0" ELSE ""
           [] name = "fuelEfficiency" ->
                IF FLessEq(numValue, Zero(FALSE))
                THEN "Fuel efficiency must be greater than 0" ELSE ""
           [] name = "fuelPrice" ->
                IF FLessEq(numValue, Zero(FALSE))
                THEN "Fuel price must be greater than 0" ELSE ""
           [] name = "workingDaysPerMonth" ->
                IF workingDaysOutOfRange(numValue)
                THEN "Working days must be between 1 and 31" ELSE ""
           [] name = "resaleYears" ->
                IF FLessEq(numValue, Zero(FALSE))
                THEN "Years until resale must be greater than 0" ELSE ""
           [] OTHER ->
                IF FLess(numValue, Zero(FALSE))
                THEN "Value cannot be negative" ELSE ""

\* the mutant of acceptsInput: the pattern /^[\d.]*$/, any number of points
acceptsDigitsAndPoints(value) ==
    \A i \in 1..Len(value) : value[i] \in Digits \cup {"."}

\* the test of handleInputChange: value === '' || /^\d*\.?\d*$/.test(value)
acceptsInput(value) == value = <<>> \/ MatchesNumberPattern(value)

\* { ...prev, [name]: v } on an object kept as a function
SetKey(obj, name, v) ==
    [k \in DOMAIN obj \cup {name} |-> IF k = name THEN v ELSE obj[k]]

\* the mutant of handleInputChange: setErrors({ [name]: error }), the
\* entries of the other fields dropped
handleInputChangeDropsErrors(name, value) ==
    /\ IF acceptsInput(value)
       THEN /\ formData' = [formData EXCEPT ![name] = value]
            /\ errors' = SetKey(<<>>, name,
                                IF value # <<>> THEN validateField(name, value) ELSE "")
       ELSE UNCHANGED <<formData, errors>>
    /\ UNCHANGED <<result, viewMode, chartType>>

\* handleInputChange: the change event of field name carrying text value
handleInputChange(name, value) ==
    /\ IF acceptsInput(value)
       THEN /\ formData' = [formData EXCEPT ![name] = value]
            /\ errors' = SetKey(errors, name,
                                IF value # <<>> THEN validateField(name, value) ELSE "")
       ELSE UNCHANGED <<formData, errors>>
    /\ UNCHANGED <<result, viewMode, chartType>>

\* the mutant of newErrors: the check for empty required fields left out
newErrorsWithoutRequired(fd) ==
    [f \in {g \in Fields : validateField(g, fd[g]) # ""} |-> validateField(f, fd[f])]

\* validateForm: the newErrors object built from the form content fd
newErrors(fd) ==
    LET failing == {f \in Fields : validateField(f, fd[f]) # ""}
        missing == {f \in requiredFields : fd[f] = <<>>}
    IN  [f \in failing \cup missing |->
            IF f \in missing THEN "This field is required"
            ELSE validateField(f, fd[f])]

\* validateForm: its return value isValid
validateForm(fd) == DOMAIN newErrors(fd) = {}

\* the characters of the decimal digits, by value
DigitChars == <<"0", "1", "2", "3", "4", "5", "6", "7", "8", "9">>

RECURSIVE BDecimal(_)
\* the decimal digits of the natural number a, none for 0
BDecimal(a) ==
    IF a = <<>> THEN <<>>
    ELSE BDecimal(BDivSmall(a, 10)) \o <<DigitChars[BModSmall(a, 10) + 1]>>

\* the number 10^n
Pow10(n) == Round(FALSE, BPow10(n), 0, FALSE)

\* the integer n for which n / 100 - |x| is as close to zero as possible,
\* the larger one when there are two, for a finite x
Hundredths(x) ==
    IF x.exp >= 0 THEN BMulSmall(BShl(x.man, x.exp), 100)
    ELSE BShr(BAdd(BMulSmall(x.man, 200), BShl(BOne, 0 - x.exp)), 1 - x.exp)

\* the text of a number of 10^21 or more in magnitude: exponent notation,
\* whose digits are not spelled out
ExponentNotation == <<"e", "+">>

\* x.toFixed(2)
toFixed(x) ==
    IF IsNaN(x) THEN <<"N", "a", "N">>
    ELSE LET sign == IF x.neg /\ ~IsZero(x) THEN <<"-">> ELSE <<>> IN
         IF ~IsFinite(x)
         THEN sign \o <<"I", "n", "f", "i", "n", "i", "t", "y">>
         ELSE IF ~FLess([x EXCEPT !.neg = FALSE], Pow10(21))
         THEN sign \o ExponentNotation
         ELSE LET ds == BDecimal(Hundredths(x))
                  m  == IF Len(ds) >= 3 THEN ds
                        ELSE IF Len(ds) = 2 THEN <<"0">> \o ds
                        ELSE IF Len(ds) = 1 THEN <<"0", "0">> \o ds
                        ELSE <<"0", "0", "0">>
              IN  sign \o SubSeq(m, 1, Len(m) - 2) \o <<".">>
                       \o SubSeq(m, Len(m) - 1, Len(m))

formatIndianNumber(num) ==
    IF FLessEq(Pow10(7), num)
    THEN toFixed(FDiv(num, Pow10(7))) \o <<" ", "C", "r">>
    ELSE IF FLessEq(Pow10(5), num)
    THEN toFixed(FDiv(num, Pow10(5))) \o <<" ", "L">>
    ELSE IF FLessEq(Pow10(3), num)
    THEN toFixed(FDiv(num, Pow10(3))) \o <<" ", "K">>
    ELSE toFixed(num)

\* Math.round(x): the integer nearest to x, the larger one when there are
\* two
MathRound(x) ==
    IF ~IsFinite(x) \/ x.exp >= 0 THEN x
    ELSE LET twice == BMulSmall(x.man, 2)
             half  == BShl(BOne, 0 - x.exp)
         IN  IF ~x.neg
             THEN Round(FALSE, BShr(BAdd(twice, half), 1 - x.exp), 0, FALSE)
             ELSE IF BCmp(twice, half) <= 0 THEN Zero(TRUE)
             ELSE Round(TRUE,
                        BShr(BSub(BAdd(BSub(twice, half), BShl(BOne, 1 - x.exp)),
                                  BOne),
                             1 - x.exp),
                        0, FALSE)

\* numberToWords.toWords(n) for an integer n >= 0: the words of the
\* library, written here as the call with the decimal digits of n
toWords(n) ==
    <<"toWords(">>
        \o (IF IsZero(n) THEN <<"0">> ELSE BDecimal(BShl(n.man, n.exp)))
        \o <<")">>

\* the mutant of formatIndianWords: the value truncated, toWords(num) on
\* the whole part, and not rounded
formatIndianWordsTruncated(num) ==
    IF FLessEq(Pow10(7), num)
    THEN toFixed(FDiv(num, Pow10(7))) \o <<" ", "c", "r", "o", "r", "e", "s">>
    ELSE IF FLessEq(Pow10(5), num)
    THEN toFixed(FDiv(num, Pow10(5))) \o <<" ", "l", "a", "k", "h", "s">>
    ELSE IF FLessEq(Pow10(3), num)
    THEN toFixed(FDiv(num, Pow10(3)))
            \o <<" ", "t", "h", "o", "u", "s", "a", "n", "d">>
    ELSE toWords(MathRound(FSub(num, FDiv(FromNat(1), FromNat(2)))))

formatIndianWords(num) ==
    IF FLessEq(Pow10(7), num)
    THEN toFixed(FDiv(num, Pow10(7))) \o <<" ", "c", "r", "o", "r", "e", "s">>
    ELSE IF FLessEq(Pow10(5), num)
    THEN toFixed(FDiv(num, Pow10(5))) \o <<" ", "l", "a", "k", "h", "s">>
    ELSE IF FLessEq(Pow10(3), num)
    THEN toFixed(FDiv(num, Pow10(3)))
            \o <<" ", "t", "h", "o", "u", "s", "a", "n", "d">>
    ELSE toWords(MathRound(num))

\* convertToWords(value).  toWords throws only for a number that is not a
\* safe integer, which no number below 1000 is, so the catch is not entered.
convertToWords(value) ==
    IF value = <<>> \/ IsNaN(parseFloat(value)) THEN <<>>
    ELSE LET number == parseFloat(value)
         IN  IF IsZero(number) THEN <<"z", "e", "r", "o">>
             ELSE formatIndianWords(number)

\* the emission factor 0.404
CO2_PER_KM == parseFloat(<<"0", ".", "4", "0", "4">>)

calculateEmissions(monthlyDistance) ==
    FDiv(FMul(FMul(monthlyDistance, FromNat(12)), CO2_PER_KM), FromNat(1000))

\* the mutant of parsedValues: resaleYears defaulted to 0 like the others
parsedValuesZeroDefault(fd) ==
    [f \in Fields |-> OrElse(parseFloat(fd[f]), Zero(FALSE))]

\* calculateCosts: the values object parsed from the form content fd
parsedValues(fd) ==
    [f \in Fields |->
        OrElse(parseFloat(fd[f]),
               IF f = "resaleYears" THEN FromNat(1) ELSE Zero(FALSE))]

\* calculateCosts, the try block: the object handed to setResult for the
\* parsed values
costEngine(values) ==
    LET monthlyDistance ==
            FMul(FMul(values["distanceToWork"], FromNat(2)),
                 values["workingDaysPerMonth"])
        monthlyFuelCosts ==
            FMul(FDiv(monthlyDistance, values["fuelEfficiency"]), values["fuelPrice"])
        totalDepreciation == FSub(values["carPrice"], values["resaleValue"])
        monthlyDepreciation ==
            FDiv(totalDepreciation, FMul(values["resaleYears"], FromNat(12)))
        monthlyCarCosts ==
            FAdd(FAdd(FAdd(monthlyFuelCosts, values["maintenanceCosts"]),
                      FDiv(values["insuranceCosts"], FromNat(12))),
                 monthlyDepreciation)
        yearlyCarCosts == FMul(monthlyCarCosts, FromNat(12))
        yearlyCommuteCosts == FMul(values["publicTransportCosts"], FromNat(12))
    IN  [totalCarCost     |-> monthlyCarCosts,
         totalCommuteCost |-> values["publicTransportCosts"],
         monthlySavings   |-> FSub(values["publicTransportCosts"], monthlyCarCosts),
         yearlySavings    |-> FSub(yearlyCommuteCosts, yearlyCarCosts),
         fuelCosts        |-> monthlyFuelCosts,
         maintenanceCost  |-> values["maintenanceCosts"],
         insuranceCost    |-> FDiv(values["insuranceCosts"], FromNat(12)),
         depreciationCost |-> monthlyDepreciation,
         yearlyEmissions  |-> calculateEmissions(monthlyDistance)]

\* the mutant of computeResult: monthlySavings taken the other way round,
\* monthlyCarCosts - publicTransportCosts
computeResultSavingsReversed(fd) ==
    LET r == costEngine(parsedValues(fd))
    IN  [r EXCEPT !.monthlySavings = FSub(r.totalCarCost, r.totalCommuteCost)]

\* the mutant of computeResult: yearlySavings taken as monthlySavings * 12
computeResultYearlyFromMonthly(fd) ==
    LET r == costEngine(parsedValues(fd))
    IN  [r EXCEPT !.yearlySavings = FMul(r.monthlySavings, FromNat(12))]

\* the mutant of computeResult: the engine reads the view mode and stores
\* the yearly car cost when the view is yearly
computeResultScaledByView(fd) ==
    LET r == costEngine(parsedValues(fd))
    IN  IF viewMode = "yearly"
        THEN [r EXCEPT !.totalCarCost = FMul(r.totalCarCost, FromNat(12))]
        ELSE r

\* the mutant of computeResult: the monthly distance counts the way to work
\* and not the way back
computeResultOneWay(fd) ==
    costEngine([parsedValues(fd) EXCEPT
                   !["distanceToWork"] = FDiv(@, FromNat(2))])

\* calculateCosts past validateForm: the result stored for form content fd
computeResult(fd) == costEngine(parsedValues(fd))

\* the mutant of calculateCosts: an attempt that fails validation clears
\* the stored result
calculateCostsClearsResult ==
    /\ errors' = newErrors(formData)
    /\ IF validateForm(formData)
       THEN result' = <<computeResult(formData)>>
       ELSE result' = <<>>
    /\ UNCHANGED <<formData, viewMode, chartType>>

\* the mutant of calculateCosts: the new errors merged into the previous
\* ones, setErrors(prev => ({ ...prev, ...newErrors }))
calculateCostsMergesErrors ==
    /\ errors' = [f \in DOMAIN errors \cup DOMAIN newErrors(formData) |->
                     IF f \in DOMAIN newErrors(formData)
                     THEN newErrors(formData)[f] ELSE errors[f]]
    /\ IF validateForm(formData)
       THEN result' = <<computeResult(formData)>>
       ELSE UNCHANGED result
    /\ UNCHANGED <<formData, viewMode, chartType>>

\* calculateCosts.  Arithmetic on numbers never throws, so the catch block
\* with its alert is never entered and has no step here.
calculateCosts ==
    /\ errors' = newErrors(formData)
    /\ IF validateForm(formData)
       THEN result' = <<computeResult(formData)>>
       ELSE UNCHANGED result
    /\ UNCHANGED <<formData, viewMode, chartType>>

setViewMode(mode) ==
    /\ viewMode' = mode
    /\ UNCHANGED <<formData, errors, result, chartType>>

setChartType(type) ==
    /\ chartType' = type
    /\ UNCHANGED <<formData, errors, result, viewMode>>

(***************************************************************************)
(* The specification                                                       *)
(***************************************************************************)
\* the longest text a change event carries
MaxLen == 2

\* the number of change events in one behaviour
MaxChanges == 1

\* the characters of the texts: digits, the decimal point and the minus sign
Chars == {"0", "1", "2", "3", ".", "-"}

Texts == UNION {[1..n -> Chars] : n \in 0..MaxLen}

EmptyForm == [f \in Fields |-> <<>>]

\* the four required fields, a maintenance cost and a fare, all of them 1
SmallForm ==
    [f \in Fields |->
        IF f \in requiredFields \cup {"maintenanceCosts", "publicTransportCosts"}
        THEN <<"1">> ELSE <<>>]

\* all ten fields filled in
FullForm ==
    [carPrice |-> <<"3", "1">>, fuelEfficiency |-> <<"1", ".", "5">>,
     fuelPrice |-> <<"3">>, distanceToWork |-> <<"2">>,
     workingDaysPerMonth |-> <<"3">>, maintenanceCosts |-> <<".", "5">>,
     insuranceCosts |-> <<"1", "2">>, resaleValue |-> <<"1">>,
     resaleYears |-> <<"2">>, publicTransportCosts |-> <<"3", "0">>]

\* a form typed with two values the validator rejects
FaultyForm ==
    [f \in Fields |->
        CASE f = "carPrice" -> <<"0">>
          [] f = "workingDaysPerMonth" -> <<"3", "2">>
          [] f \in {"fuelEfficiency", "fuelPrice"} -> <<"1">>
          [] OTHER -> <<>>]

InitForms == {EmptyForm, SmallForm, FullForm, FaultyForm}

\* the errors object after each non-empty field of form fd has been typed
\* into the freshly constructed component
typedErrors(fd) ==
    [f \in {g \in Fields : fd[g] # <<>>} |-> validateField(f, fd[f])]

\* the constructed component, or the constructed component after the fields
\* of one of the forms above have been typed in
Init ==
    /\ formData \in InitForms
    /\ errors = typedErrors(formData)
    /\ result = <<>>
    /\ viewMode = "monthly"
    /\ chartType = "line"
    /\ changes = 0
    /\ checked = [name |-> "", value |-> <<>>, message |-> ""]
    /\ shown = [fn |-> "", arg |-> <<>>, text |-> <<>>]

Change ==
    /\ changes < MaxChanges
    /\ \E name \in Fields, value \in Texts : handleInputChange(name, value)
    /\ changes' = changes + 1
    /\ UNCHANGED <<checked, shown>>

Calculate == calculateCosts /\ UNCHANGED <<changes, checked, shown>>

ToggleView ==
    \E mode \in {"monthly", "yearly"} :
        setViewMode(mode) /\ UNCHANGED <<changes, checked, shown>>

ToggleChart ==
    \E type \in {"line", "area"} :
        setChartType(type) /\ UNCHANGED <<changes, checked, shown>>

Next == Change \/ Calculate \/ ToggleView \/ ToggleChart

Spec == Init /\ [][Next]_vars

\* validateField on its own: one call, with any field name and any text
Validate ==
    /\ checked.name = ""
    /\ \E name \in Fields, value \in Texts :
            checked' = [name |-> name, value |-> value,
                        message |-> validateField(name, value)]
    /\ UNCHANGED <<formData, errors, result, viewMode, chartType, changes, shown>>

InitValidate == Init /\ formData = EmptyForm

SpecValidate == InitValidate /\ [][Validate]_vars

\* the form of the worked example: a car of 600000 doing 15 km per litre at
\* 100 a litre, 10 km to work on 22 days a month, 1000 a month maintenance,
\* 12000 a year insurance, resold for 200000 after 5 years, against a
\* monthly fare of 2000
ScenarioForm ==
    [carPrice             |-> <<"6", "0", "0", "0", "0", "0">>,
     fuelEfficiency       |-> <<"1", "5">>,
     fuelPrice            |-> <<"1", "0", "0">>,
     distanceToWork       |-> <<"1", "0">>,
     workingDaysPerMonth  |-> <<"2", "2">>,
     maintenanceCosts     |-> <<"1", "0", "0", "0">>,
     insuranceCosts       |-> <<"1", "2", "0", "0", "0">>,
     resaleValue          |-> <<"2", "0", "0", "0", "0", "0">>,
     resaleYears          |-> <<"5">>,
     publicTransportCosts |-> <<"2", "0", "0", "0">>]

\* a field still empty receives its text of the worked example
TypeScenario ==
    /\ \E name \in Fields :
            /\ formData[name] = <<>>
            /\ handleInputChange(name, ScenarioForm[name])
    /\ UNCHANGED <<changes, checked, shown>>

InitScenario == Init /\ formData = EmptyForm

\* the button pressed once the required fields are filled in
CalculateScenario ==
    /\ \A f \in requiredFields : formData[f] # <<>>
    /\ Calculate

NextScenario == TypeScenario \/ CalculateScenario

\* the worked example entered field by field in any order, with
\* calculations at any moment from when the required fields are in
SpecScenario == InitScenario /\ [][NextScenario]_vars

\* how far around each band limit the numbers handed to the formatter lie
FormatSpread == 12

\* the figures of a stored result that the markup hands to formatIndianNumber
DisplayedFields ==
    {"totalCarCost", "totalCommuteCost", "fuelCosts", "maintenanceCost",
     "insuranceCost", "depreciationCost"}

\* the numbers handed to formatIndianNumber: the whole numbers around 0 and
\* around the three band limits, their eighths and thousandths, and the
\* figures stored for the worked example, as it stands and with the text
\* "." as its fuel efficiency
FormatInputs ==
    LET near == {b + k : b \in {0, 1000, 100000, 10000000},
                         k \in (0 - FormatSpread)..FormatSpread} \cap Nat
        forms == {ScenarioForm,
                  [ScenarioForm EXCEPT !["fuelEfficiency"] = <<".">>]}
    IN  {FDiv(FromNat(n), FromNat(d)) : n \in near, d \in {1, 8, 1000}}
            \cup {computeResult(fd)[k] : fd \in forms, k \in DisplayedFields}

\* formatIndianNumber on its own: one call
Format ==
    /\ shown.fn = ""
    /\ \E num \in FormatInputs :
            shown' = [fn |-> "formatIndianNumber", arg |-> num,
                      text |-> formatIndianNumber(num)]
    /\ UNCHANGED <<formData, errors, result, viewMode, chartType, changes, checked>>

InitFormat == Init /\ formData = EmptyForm

SpecFormat == InitFormat /\ [][Format]_vars

\* the texts handed to convertToWords: a short beginning over 0, 1, 9 and
\* the decimal point followed by one of a few endings, those of them that
\* a field can hold
WordInputs ==
    LET heads == UNION {[1..n -> {"0", "1", "9", "."}] : n \in 0..MaxLen}
        tails == {<<>>, <<"0", "0">>, <<"0", "0", "0">>, <<"9", "9", "9">>,
                  <<"0", "0", "0", "0", "0">>, <<"9", ".", "5">>,
                  <<"0", "0", "0", "0", "0", "0", "0">>, <<"4", "9">>,
                  <<"5">>, <<"0", "0", ".", "0", "0", "5">>}
    IN  {t \in {h \o e : h \in heads, e \in tails} : acceptsInput(t)}

\* convertToWords on its own: one call
Words ==
    /\ shown.fn = ""
    /\ \E value \in WordInputs :
            shown' = [fn |-> "convertToWords", arg |-> value,
                      text |-> convertToWords(value)]
    /\ UNCHANGED <<formData, errors, result, viewMode, chartType, changes, checked>>

InitWords == Init /\ formData = EmptyForm

SpecWords == InitWords /\ [][Words]_vars

(***************************************************************************)
(* Properties                                                              *)
(***************************************************************************)
HasResult == result # <<>>

\* the stored CalculationResult, when there is one
Stored == result[1]

ResultFields ==
    {"totalCarCost", "totalCommuteCost", "monthlySavings", "yearlySavings",
     "fuelCosts", "maintenanceCost", "insuranceCost", "depreciationCost",
     "yearlyEmissions"}

\* fuelCosts + maintenanceCost + insuranceCost + depreciationCost
ComponentSum(r) ==
    FAdd(FAdd(FAdd(r.fuelCosts, r.maintenanceCost), r.insuranceCost),
         r.depreciationCost)

\* C1: in every state that holds a CalculationResult, the four monthly cost
\* components sum exactly to totalCarCost.
C1_ComponentsSumToTotal ==
    HasResult => FEq(ComponentSum(Stored), Stored.totalCarCost)

\* C1, on the results the failure leaves alone: whenever totalCarCost is a
\* number (not NaN), the four components sum to it exactly, although each
\* addition is rounded.
C1_SumExactUnlessNaN ==
    (HasResult /\ ~IsNaN(Stored.totalCarCost))
        => FEq(ComponentSum(Stored), Stored.totalCarCost)

\* C2: the stored result changes only in a calculateCosts step whose
\* whole-form validation passes, and a result once produced never reverts
\* to absent.
C2_ResultChangesOnlyOnValidCalculate ==
    [][/\ result' # result => (validateForm(formData) /\ Calculate)
       /\ HasResult => result' # <<>>]_vars

\* C2 witness: a calculation attempt has failed on a missing car price
\* while an earlier result is still held.
C2_Witness ==
    /\ HasResult
    /\ formData["carPrice"] = <<>>
    /\ "carPrice" \in DOMAIN errors
    /\ errors["carPrice"] = "This field is required"

\* C3: when calculateCosts runs while a required field is empty, the error
\* mapping afterwards holds "This field is required" for that field and the
\* attempt produces no result, whatever the other fields contain.
C3_EmptyRequiredField ==
    [][Calculate =>
        \A f \in requiredFields :
            formData[f] = <<>> =>
                /\ f \in DOMAIN errors'
                /\ errors'[f] = "This field is required"
                /\ result' = result]_vars

\* C3 witness: the car price alone is missing from an otherwise complete
\* form, the attempt has reported it and no result exists.
C3_Witness ==
    /\ formData["carPrice"] = <<>>
    /\ \A f \in Fields \ {"carPrice"} : formData[f] # <<>>
    /\ "carPrice" \in DOMAIN errors
    /\ errors["carPrice"] = "This field is required"
    /\ result = <<>>

\* C4: whenever calculateCosts gets past validateForm, the fuel efficiency
\* it divides by is strictly greater than 0.
C4_FuelEfficiencyPositive ==
    [][(Calculate /\ validateForm(formData))
          => FGreater(parsedValues(formData)["fuelEfficiency"], Zero(FALSE))]_vars

\* C5: no stored CalculationResult contains a non-finite component (a
\* non-finite calculation is a failure that stores nothing).
C5_StoredResultFinite ==
    HasResult => \A k \in ResultFields : IsFinite(Stored[k])

\* C6 as stated: a positive monthlySavings means public transport is
\* cheaper, totalCommuteCost < totalCarCost.
C6_PositiveSavingsCommuteCheaper ==
    (HasResult /\ FGreater(Stored.monthlySavings, Zero(FALSE)))
        => FLess(Stored.totalCommuteCost, Stored.totalCarCost)

\* C6 amended: a positive monthlySavings means the car is the cheaper one,
\* totalCommuteCost > totalCarCost.
C6_PositiveSavingsCarCheaper ==
    (HasResult /\ FGreater(Stored.monthlySavings, Zero(FALSE)))
        => FGreater(Stored.totalCommuteCost, Stored.totalCarCost)

\* C6 witness: a result with positive monthly savings is held.
C6_Witness == HasResult /\ FGreater(Stored.monthlySavings, Zero(FALSE))

\* C7 as stated: yearlySavings = (totalCommuteCost - totalCarCost) * 12
\* and yearlySavings = 12 * monthlySavings.
C7_YearlySavingsTwelveTimesMonthly ==
    HasResult =>
        /\ FEq(Stored.yearlySavings,
               FMul(FSub(Stored.totalCommuteCost, Stored.totalCarCost), FromNat(12)))
        /\ FEq(Stored.yearlySavings, FMul(FromNat(12), Stored.monthlySavings))

\* C7 amended: yearlySavings is the very number
\* totalCommuteCost * 12 - totalCarCost * 12, each product and the
\* difference rounded as the language rounds them (NaN when that is NaN).
C7_YearlySavingsDifferenceOfYearlyCosts ==
    HasResult =>
        Stored.yearlySavings =
            FSub(FMul(Stored.totalCommuteCost, FromNat(12)),
                 FMul(Stored.totalCarCost, FromNat(12)))

\* C7 witness: a finite result whose yearlySavings differs from
\* 12 * monthlySavings in the last place.
C7_Witness ==
    /\ HasResult
    /\ IsFinite(Stored.yearlySavings)
    /\ ~FEq(Stored.yearlySavings, FMul(FromNat(12), Stored.monthlySavings))

\* a text made only of digits with at most one decimal point
WellFormedText(t) ==
    /\ \A i \in 1..Len(t) : t[i] \in Digits \cup {"."}
    /\ Cardinality({i \in 1..Len(t) : t[i] = "."}) <= 1

\* the texts of change events that are not of that shape
IllFormedTexts == {t \in Texts : ~WellFormedText(t)}

\* the position of the decimal point of a well-formed text, Len(t) + 1
\* when it has none
PointAt(t) ==
    IF \E i \in 1..Len(t) : t[i] = "."
    THEN CHOOSE i \in 1..Len(t) : t[i] = "."
    ELSE Len(t) + 1

RECURSIVE NatValue(_)
\* the integer a short sequence of digits denotes
NatValue(ds) ==
    IF ds = <<>> THEN 0
    ELSE 10 * NatValue(SubSeq(ds, 1, Len(ds) - 1)) + DigitValue(ds[Len(ds)])

HasDigit(t) == \E i \in 1..Len(t) : t[i] \in Digits

\* the decimal a well-formed text denotes is 0 (it is never below 0)
DecimalIsZero(t) ==
    HasDigit(t) /\ \A i \in 1..Len(t) : t[i] \in Digits => t[i] = "0"

\* the decimal a well-formed text denotes is above 31
DecimalExceeds31(t) ==
    LET whole == NatValue(SubSeq(t, 1, PointAt(t) - 1))
    IN  \/ whole > 31
        \/ /\ whole = 31
           /\ \E i \in (PointAt(t) + 1)..Len(t) : t[i] # "0"

IsSigned(t) == t # <<>> /\ t[1] = "-"

\* the text without its minus sign
Unsigned(t) == IF IsSigned(t) THEN Tail(t) ELSE t

\* a numeric text: an optional minus sign, then digits with at most one
\* decimal point and at least one digit
NumericText(t) == WellFormedText(Unsigned(t)) /\ HasDigit(Unsigned(t))

\* the value of a numeric text is <= 0
ValueAtMostZero(t) == IsSigned(t) \/ DecimalIsZero(Unsigned(t))

\* the value of a numeric text is < 0
ValueBelowZero(t) == IsSigned(t) /\ ~DecimalIsZero(Unsigned(t))

\* the value of a numeric text is > 31
ValueAbove31(t) == ~IsSigned(t) /\ DecimalExceeds31(t)

\* the rule table of the validator, on the exact decimal value of the text
RuleMessage(f, t) ==
    CASE f = "carPrice" ->
            IF ValueAtMostZero(t) THEN "Car price must be greater than 0" ELSE ""
      [] f = "fuelEfficiency" ->
            IF ValueAtMostZero(t) THEN "Fuel efficiency must be greater than 0" ELSE ""
      [] f = "fuelPrice" ->
            IF ValueAtMostZero(t) THEN "Fuel price must be greater than 0" ELSE ""
      [] f = "resaleYears" ->
            IF ValueAtMostZero(t) THEN "Years until resale must be greater than 0" ELSE ""
      [] f = "workingDaysPerMonth" ->
            IF ValueAtMostZero(t) \/ ValueAbove31(t)
            THEN "Working days must be between 1 and 31" ELSE ""
      [] OTHER ->
            IF ValueBelowZero(t) THEN "Value cannot be negative" ELSE ""

\* C8: validateField agrees with the rule table for every field name: the
\* empty text yields no message, and a numeric text yields the message the
\* table gives for its value.
C8_ValidateFieldRuleTable ==
    checked.name \in Fields =>
        /\ checked.value = <<>> => checked.message = ""
        /\ NumericText(checked.value)
              => checked.message = RuleMessage(checked.name, checked.value)

\* C8 witness: validateField has rejected 32 working days.
C8_Witness ==
    /\ checked.name = "workingDaysPerMonth"
    /\ checked.value = <<"3", "2">>
    /\ checked.message = "Working days must be between 1 and 31"

\* The same table read off the component: every non-empty field carries the
\* message the table gives for its text (no entry meaning no message), and
\* an empty optional field carries none.
ErrorsFollowRuleTable ==
    \A f \in Fields :
        /\ formData[f] # <<>> =>
              IF f \in DOMAIN errors
              THEN errors[f] = RuleMessage(f, formData[f])
              ELSE RuleMessage(f, formData[f]) = ""
        /\ (formData[f] = <<>> /\ f \notin requiredFields /\ f \in DOMAIN errors)
              => errors[f] = ""

\* C9: every form field always holds a text made only of digits with at
\* most one decimal point, and a change event carrying any other text
\* leaves the form data and the error mapping unchanged.
C9_OnlyWellFormedTextStored ==
    /\ [](\A f \in Fields : WellFormedText(formData[f]))
    /\ [][\A name \in Fields, value \in IllFormedTexts :
            handleInputChange(name, value) => UNCHANGED <<formData, errors>>]_vars

\* C9 witness: a change event has been handled by the freshly constructed
\* component and has left neither a text nor an error entry: it was rejected.
C9_Witness ==
    /\ changes = 1
    /\ formData = EmptyForm
    /\ DOMAIN errors = {}

\* the entry of field f in an errors object, <<>> when it has none
ErrorEntry(obj, f) == IF f \in DOMAIN obj THEN <<obj[f]>> ELSE <<>>

\* C10: a change event that alters the text of field f sets the error entry
\* of f to validateField of the new text, to the empty message when the
\* new text is empty, and leaves the texts and error entries of all other
\* fields as they were.
C10_ChangeTouchesOneField ==
    [][\A f \in Fields :
          formData'[f] # formData[f] =>
              /\ ErrorEntry(errors', f) =
                    <<IF formData'[f] = <<>> THEN ""
                      ELSE validateField(f, formData'[f])>>
              /\ \A g \in Fields \ {f} :
                    /\ formData'[g] = formData[g]
                    /\ ErrorEntry(errors', g) = ErrorEntry(errors, g)]_vars

\* C10 witness: after a failed calculation on the empty form the car price
\* has been typed: its "This field is required" entry is replaced by the
\* empty message while the entry of the fuel price is still there.
C10_Witness ==
    /\ changes = 1
    /\ formData["carPrice"] # <<>>
    /\ ErrorEntry(errors, "carPrice") = <<"">>
    /\ ErrorEntry(errors, "fuelPrice") = <<"This field is required">>

\* C11: a step that changes the view mode or the chart style leaves the
\* form data, the error mapping and the stored result as they were, and a
\* step that stores a result stores the one the engine computes from the
\* form content alone, whatever the two toggles are set to.
C11_TogglesAffectOnlyDisplay ==
    [][/\ (viewMode' # viewMode \/ chartType' # chartType)
             => UNCHANGED <<formData, errors, result>>
       /\ result' # result
             => result' = <<costEngine(parsedValues(formData))>>]_vars

\* C11 witness: both toggles are off their initial settings and the result
\* of the form on screen is stored.
C11_Witness ==
    /\ viewMode = "yearly"
    /\ chartType = "area"
    /\ HasResult
    /\ result = <<costEngine(parsedValues(formData))>>

\* C12: for every form content that passes validation the resaleYears the
\* engine uses is strictly greater than 0, so that the divisor
\* resaleYears * 12 of the depreciation is not zero; it is 1 when the field
\* is empty or parses to no number, and every other empty optional field
\* is used as 0.
C12_ResaleYearsDivisorNotZero ==
    validateForm(formData) =>
        LET values == parsedValues(formData)
        IN  /\ FGreater(values["resaleYears"], Zero(FALSE))
            /\ ~IsZero(FMul(values["resaleYears"], FromNat(12)))
            /\ (\/ formData["resaleYears"] = <<>>
                \/ IsNaN(parseFloat(formData["resaleYears"])))
                  => values["resaleYears"] = FromNat(1)
            /\ \A f \in Fields \ (requiredFields \cup {"resaleYears"}) :
                  formData[f] = <<>> => values[f] = Zero(FALSE)

\* C12 witness: a result is stored for the form whose resaleYears,
\* resaleValue and insuranceCosts are empty and whose car price is 1: the
\* depreciation is (1 - 0) / (1 * 12).
C12_Witness ==
    /\ formData = SmallForm
    /\ HasResult
    /\ Stored.depreciationCost = FDiv(FromNat(1), FromNat(12))
    /\ Stored.insuranceCost = Zero(FALSE)

\* the figures of the worked example
ScenarioResult ==
    [totalCarCost     |-> FromNat(11600),
     totalCommuteCost |-> FromNat(2000),
     monthlySavings   |-> FNeg(FromNat(9600)),
     yearlySavings    |-> FNeg(FromNat(115200)),
     insuranceCost    |-> FromNat(1000),
     yearlyEmissions  |->
        FDiv(FMul(FMul(FromNat(440), FromNat(12)),
                  parseFloat(<<"0", ".", "4", "0", "4">>)),
             FromNat(1000))]

\* x is 2.13 to two decimals
RoundsTo213(x) ==
    /\ FLessEq(parseFloat(<<"2", ".", "1", "2", "5">>), x)
    /\ FLess(x, parseFloat(<<"2", ".", "1", "3", "5">>))

IsDigits(t) == t # <<>> /\ \A i \in 1..Len(t) : t[i] \in Digits

\* text t ends with text suffix
HasSuffix(t, suffix) ==
    /\ Len(t) >= Len(suffix)
    /\ SubSeq(t, Len(t) - Len(suffix) + 1, Len(t)) = suffix

\* text t without its last n characters
DropLast(t, n) == SubSeq(t, 1, Len(t) - n)

\* t is digits, a point and two digits
TwoDecimals(t) ==
    /\ Len(t) >= 4
    /\ t[Len(t) - 2] = "."
    /\ IsDigits(DropLast(t, 3))
    /\ IsDigits(SubSeq(t, Len(t) - 1, Len(t)))

\* the number of hundredths a text of that shape denotes
HundredthsOf(t) == DigitsValue(DropLast(t, 3) \o SubSeq(t, Len(t) - 1, Len(t)))

\* a finite number x >= 0 is the fraction Numer(x) / Denom(x)
Numer(x) == IF x.exp >= 0 THEN BShl(x.man, x.exp) ELSE x.man

Denom(x) == IF x.exp >= 0 THEN BOne ELSE BShl(BOne, 0 - x.exp)

\* |n / 100 - (a / b) / scale| <= 0.005: n hundredths is a rounding of the
\* fraction a / b divided by scale to two decimals
RoundsToHundredths(n, a, b, scale) ==
    LET sb   == BMul(scale, b)
        l    == BMul(n, sb)
        r    == BMulSmall(a, 100)
        diff == IF BCmp(l, r) >= 0 THEN BSub(l, r) ELSE BSub(r, l)
    IN  BCmp(BMulSmall(diff, 2), sb) <= 0

\* the fraction a / b is at least 10^n
AtLeastPow10(a, b, n) == BCmp(a, BMul(BPow10(n), b)) >= 0

\* the power of ten the band of the fraction a / b divides by
BandPower(a, b) ==
    IF AtLeastPow10(a, b, 7) THEN 7
    ELSE IF AtLeastPow10(a, b, 5) THEN 5
    ELSE IF AtLeastPow10(a, b, 3) THEN 3
    ELSE 0

NumberSuffix(power) ==
    CASE power = 7 -> <<" ", "C", "r">>
      [] power = 5 -> <<" ", "L">>
      [] power = 3 -> <<" ", "K">>
      [] OTHER -> <<>>

\* text is the fraction a / b in its band: divided by the power of ten of
\* the band, rounded to two decimals, followed by the suffix of the band
BandedText(text, a, b, suffixOf(_)) ==
    LET power  == BandPower(a, b)
        suffix == suffixOf(power)
        shownNumber == DropLast(text, Len(suffix))
    IN  /\ HasSuffix(text, suffix)
        /\ TwoDecimals(shownNumber)
        /\ RoundsToHundredths(HundredthsOf(shownNumber), a, b, BPow10(power))

\* formatIndianNumber was called with a number that is not negative
FormattedNonNegative ==
    /\ shown.fn = "formatIndianNumber"
    /\ ~IsNaN(shown.arg)
    /\ ~shown.arg.neg

\* C14: for every non-negative value formatIndianNumber gives the value
\* divided by 10,000,000 with " Cr" when it is at least 10,000,000,
\* otherwise divided by 100,000 with " L" when at least 100,000, otherwise
\* divided by 1,000 with " K" when at least 1,000, otherwise unscaled with
\* no suffix, always with two decimals; 1,000 gives "1.00 K", 100,000
\* "1.00 L" and 10,000,000 "1.00 Cr".
C14_FormatIndianNumberBands ==
    FormattedNonNegative =>
        /\ IF IsFinite(shown.arg)
           THEN BandedText(shown.text, Numer(shown.arg), Denom(shown.arg),
                           NumberSuffix)
           ELSE /\ HasSuffix(shown.text, NumberSuffix(7))
                /\ TwoDecimals(DropLast(shown.text, 3))
        /\ shown.arg = Pow10(3) => shown.text = <<"1", ".", "0", "0", " ", "K">>
        /\ shown.arg = Pow10(5) => shown.text = <<"1", ".", "0", "0", " ", "L">>
        /\ shown.arg = Pow10(7)
              => shown.text = <<"1", ".", "0", "0", " ", "C", "r">>

\* C14, on the numbers that are finite: each of them is shown in its band
\* with two decimals.
C14_FiniteValuesBanded ==
    (FormattedNonNegative /\ IsFinite(shown.arg)) => C14_FormatIndianNumberBands

\* C15: whenever calculateCosts gets past validateForm, the number of
\* working days it multiplies by is at least 1 and at most 31.
C15_WorkingDaysBetween1And31 ==
    [][(Calculate /\ validateForm(formData)) =>
          LET days == parsedValues(formData)["workingDaysPerMonth"]
          IN  FLessEq(FromNat(1), days) /\ FLessEq(days, FromNat(31))]_vars

\* field f fails whole-form validation: validateField gives a message for
\* its text, or it is required and empty
FailsValidation(f) ==
    \/ validateField(f, formData[f]) # ""
    \/ f \in requiredFields /\ formData[f] = <<>>

\* C16: after each attempt of calculateCosts the error mapping has an entry
\* for exactly the fields that fail validateField or are required and
\* empty, each with a message, whatever entries it had before; it is empty
\* exactly when the attempt passes validation: then the result of the form
\* is stored, and otherwise the stored result stays as it was.
C16_AttemptReplacesErrors ==
    [][Calculate =>
          /\ \A f \in Fields :
                /\ f \in DOMAIN errors' <=> FailsValidation(f)
                /\ f \in DOMAIN errors' => errors'[f] # ""
          /\ IF DOMAIN errors' = {}
             THEN result' = <<costEngine(parsedValues(formData))>>
             ELSE result' = result]_vars

\* C16 witness: an attempt on the form typed with a car price of 0 and 32
\* working days has left entries for these two fields only; the entries
\* that typing the fuel efficiency and the fuel price had left are gone.
C16_Witness ==
    /\ formData = FaultyForm
    /\ DOMAIN errors = {"carPrice", "workingDaysPerMonth"}
    /\ errors["carPrice"] = "Car price must be greater than 0"
    /\ errors["workingDaysPerMonth"] = "Working days must be between 1 and 31"

WordSuffix(power) ==
    CASE power = 7 -> <<" ", "c", "r", "o", "r", "e", "s">>
      [] power = 5 -> <<" ", "l", "a", "k", "h", "s">>
      [] power = 3 -> <<" ", "t", "h", "o", "u", "s", "a", "n", "d">>
      [] OTHER -> <<>>

\* the digits of a well-formed text, its decimal point left out
DigitsOf(t) == SubSeq(t, 1, PointAt(t) - 1) \o SubSeq(t, PointAt(t) + 1, Len(t))

\* the number of digits after the decimal point of a well-formed text
FractionDigits(t) == IF PointAt(t) > Len(t) THEN 0 ELSE Len(t) - PointAt(t)

\* the integer nearest to the decimal a well-formed text below 1000
\* denotes, halves upward
NearestInteger(t) ==
    NatValue(SubSeq(t, 1, PointAt(t) - 1))
        + (IF PointAt(t) < Len(t) /\ DigitValue(t[PointAt(t) + 1]) >= 5
           THEN 1 ELSE 0)

\* the decimal text of a natural number
NatText(n) == IF n = 0 THEN <<"0">> ELSE BDecimal(BFromNat(n))

\* C17: convertToWords gives the empty text for the empty text and for a
\* text that denotes no number, "zero" for a text that denotes 0, the value
\* divided as in its band and followed by "crores", "lakhs" or "thousand"
\* when it is at least 1,000, and the words of the nearest integer when it
\* is below 1,000.
C17_ConvertToWords ==
    shown.fn = "convertToWords" =>
        LET t == shown.arg
            a == DigitsValue(DigitsOf(t))
            b == BPow10(FractionDigits(t))
        IN  IF ~HasDigit(t) THEN shown.text = <<>>
            ELSE IF DecimalIsZero(t) THEN shown.text = <<"z", "e", "r", "o">>
            ELSE IF BandPower(a, b) > 0
            THEN BandedText(shown.text, a, b, WordSuffix)
            ELSE shown.text = <<"toWords(">> \o NatText(NearestInteger(t)) \o <<")">>

\* C17 witness: 999.5 is below 1,000 and is spelled as the words of 1000.
C17_Witness ==
    /\ shown.fn = "convertToWords"
    /\ shown.arg = <<"9", "9", "9", ".", "5">>
    /\ shown.text = <<"toWords(", "1", "0", "0", "0", ")">>

====
